---- MODULE Spec2Model ----
(***************************************************************************)
(* Fixed-capacity binary min-heap of ruby/command-t/heap.c.                *)
(*                                                                         *)
(* A heap_t is the record [count, capacity, comparator, entries]; entries  *)
(* is the malloc'ed array of capacity slots, indexed from 0.  An element   *)
(* handle                                                                  *)
(* is a pair <<rank, tag>>: the comparator orders handles by rank, the tag *)
(* tells apart two handles of equal rank.                                  *)
(***************************************************************************)
EXTENDS Integers, Sequences, FiniteSets, TLC

\* ------------------------------------------------------------------ bounds
MaxCapacity == 3
NumHandles == 5
MaxBulk == 2
MaxLen == 5
NumScriptRanks == 5
MaxHeapifyCount == 5

\* ----------------------------------------------------------------- handles
NULL == <<0, 0>>
\* content of a slot that malloc returned and nobody has written yet
UNINIT == <<-1, -1>>

\* the handles of the callers: ranks 1, 1, 2, 2, 3, ... with tags 1, 0, 1, 0, ...
Handle == {<<(k + 1) \div 2, k % 2>> : k \in 1..NumHandles}

\* the handles a caller passes in one heap_bulk_insert array
BulkHandle == {h \in Handle : h[2] = 1}

\* the handles of a scripted run: the odd numbers 1, 3, 5, ...
ScriptHandle == {<<2 * k - 1, 0>> : k \in 1..NumScriptRanks}

Rank(h) == h[1]

\* the comparator injected at construction: numeric ascending on the rank
Comparator(a, b) ==
    IF Rank(a) < Rank(b) THEN -1 ELSE IF Rank(a) > Rank(b) THEN 1 ELSE 0

\* the comparators a caller may hand to heap_new, by name
Comparators == {"ascending", "descending"}

\* the call heap->comparator(a, b)
CallComparator(comparator, a, b) ==
    IF comparator = "descending" THEN Comparator(b, a) ELSE Comparator(a, b)

\* C integer division truncates toward zero
CDiv(a, b) == IF a >= 0 THEN a \div b ELSE -((-a) \div b)

\* value of a C comparison used as an integer
CBool(b) == IF b THEN 1 ELSE 0

HEAP_PARENT(index) == CDiv(index - 1, 2)
HEAP_LEFT(index) == 2 * index + 1
HEAP_RIGHT(index) == 2 * index + 2

\* -------------------------------------------------------------- operations
\* the heap_t that a successful heap_new hands back
heap_t(capacity, comparator) ==
    [count |-> 0, capacity |-> capacity, comparator |-> comparator,
     entries |-> [i \in 0..(capacity - 1) |-> UNINIT]]

\* what the caller holds when there is no heap
NoHeap == heap_t(0, "none")

\* mutant: the failure path of the second malloc forgets free(heap)
heap_new_leak(capacity, comparator, heap_ok, entries_ok) ==
    IF ~heap_ok
    THEN [ret |-> "NULL", heap |-> NoHeap, live |-> {}]
    ELSE IF ~entries_ok
         THEN [ret |-> "NULL", heap |-> NoHeap, live |-> {"heap_t"}]
         ELSE [ret |-> "heap", heap |-> heap_t(capacity, comparator),
               live |-> {"heap_t", "entries"}]

\* heap_ok and entries_ok are the outcomes of the two malloc calls; live is
\* the set of blocks allocated and not freed when heap_new returns
heap_new(capacity, comparator, heap_ok, entries_ok) ==
    IF ~heap_ok
    THEN [ret |-> "NULL", heap |-> NoHeap, live |-> {}]
    ELSE IF ~entries_ok
         THEN [ret |-> "NULL", heap |-> NoHeap,
               live |-> {"heap_t"} \ {"heap_t"}]
         ELSE [ret |-> "heap", heap |-> heap_t(capacity, comparator),
               live |-> {"heap_t", "entries"}]

\* the blocks left after heap_free
heap_free(live) == (live \ {"entries"}) \ {"heap_t"}

heap_compare(heap, a_idx, b_idx) ==
    CallComparator(heap.comparator, heap.entries[a_idx], heap.entries[b_idx])

\* mutant: the test of a max-heap
heap_property_max(heap, parent_idx, child_idx) ==
    heap_compare(heap, parent_idx, child_idx) = 1

heap_property(heap, parent_idx, child_idx) ==
    heap_compare(heap, parent_idx, child_idx) = -1

\* mutant: the copy through tmp is lost, slot b keeps its value
heap_swap_clobber(heap, a, b) ==
    [heap EXCEPT !.entries = [heap.entries EXCEPT ![a] = heap.entries[b]]]

heap_swap(heap, a, b) ==
    [heap EXCEPT !.entries =
        [heap.entries EXCEPT ![a] = heap.entries[b], ![b] = heap.entries[a]]]

\* mutant: the loop of heap_insert is an if, at most one swap
SiftUpOnce(heap, idx, parent_idx) ==
    IF idx # 0 /\ ~heap_property(heap, parent_idx, idx)
    THEN heap_swap(heap, idx, parent_idx)
    ELSE heap

\* the while loop of heap_insert
RECURSIVE SiftUp(_, _, _)
SiftUp(heap, idx, parent_idx) ==
    IF idx # 0 /\ ~heap_property(heap, parent_idx, idx)
    THEN SiftUp(heap_swap(heap, idx, parent_idx), parent_idx,
                HEAP_PARENT(parent_idx))
    ELSE heap

\* mutant: a full heap still counts the offered value
heap_insert_count_first(heap, value) ==
    IF heap.count >= heap.capacity
    THEN [heap EXCEPT !.count = heap.count + 1]
    ELSE LET idx == heap.count
             stored == [heap EXCEPT !.entries[idx] = value,
                                    !.count = heap.count + 1]
         IN SiftUp(stored, idx, HEAP_PARENT(idx))

\* mutant: a full heap replaces its last slot by the offered value
heap_insert_replace_last(heap, value) ==
    IF heap.capacity = 0
    THEN heap
    ELSE LET idx == IF heap.count = heap.capacity
                    THEN heap.count - 1 ELSE heap.count
             stored == [heap EXCEPT !.entries[idx] = value,
                                    !.count = idx + 1]
         IN SiftUp(stored, idx, HEAP_PARENT(idx))

heap_insert(heap, value) ==
    IF heap.count = heap.capacity
    THEN heap
    ELSE LET idx == heap.count
             stored == [heap EXCEPT !.entries[idx] = value,
                                    !.count = heap.count + 1]
         IN SiftUp(stored, idx, HEAP_PARENT(idx))

\* the child heap_heapify picks; the second index handed to heap_compare is
\* the value of the C expression (right_idx == -1)
SmallestIdx(heap, idx) ==
    LET left_idx == HEAP_LEFT(idx)
        right_idx == HEAP_RIGHT(idx)
    IN IF right_idx < heap.count
       THEN (IF heap_compare(heap, left_idx, CBool(right_idx = -1)) # 0
             THEN left_idx ELSE right_idx)
       ELSE IF left_idx < heap.count THEN left_idx ELSE idx

RECURSIVE heap_heapify(_, _)
heap_heapify(heap, idx) ==
    LET smallest_idx == SmallestIdx(heap, idx)
    IN IF smallest_idx # idx /\ ~heap_property(heap, idx, smallest_idx)
       THEN heap_heapify(heap_swap(heap, idx, smallest_idx), smallest_idx)
       ELSE heap

\* first loop of heap_bulk_insert: copy values[i..limit-1] (0-based)
RECURSIVE BulkCopy(_, _, _, _)
BulkCopy(heap, values, i, limit) ==
    IF i < limit
    THEN BulkCopy([heap EXCEPT !.entries[heap.count] = values[i + 1],
                               !.count = heap.count + 1],
                  values, i + 1, limit)
    ELSE heap

\* second loop of heap_bulk_insert: heapify i, i-1, ..., 0
RECURSIVE BulkHeapify(_, _)
BulkHeapify(heap, i) ==
    IF i >= 0 THEN BulkHeapify(heap_heapify(heap, i), i - 1) ELSE heap

\* mutant: the copy loop starts at i = 1
heap_bulk_insert_skip_first(heap, count, values) ==
    LET available == heap.capacity - heap.count
        limit == IF available > count THEN count ELSE available
        copied == BulkCopy(heap, values, 1, limit)
    IN BulkHeapify(copied, CDiv(copied.count - 1, 2))

heap_bulk_insert(heap, count, values) ==
    LET available == heap.capacity - heap.count
        limit == IF available > count THEN count ELSE available
        copied == BulkCopy(heap, values, 0, limit)
    IN BulkHeapify(copied, CDiv(copied.count - 1, 2))

\* mutant: the root slot is read before the emptiness test
heap_extract_stale_root(heap) ==
    IF heap.count # 0
    THEN [heap |-> heap_heapify(
                      [heap EXCEPT !.entries[0] = heap.entries[heap.count - 1],
                                   !.count = heap.count - 1], 0),
          extracted |-> heap.entries[0]]
    ELSE [heap |-> heap,
          extracted |-> IF heap.capacity > 0 THEN heap.entries[0] ELSE NULL]

\* returns the heap after the call and the returned pointer
heap_extract(heap) ==
    IF heap.count # 0
    THEN [heap |-> heap_heapify(
                      [heap EXCEPT !.entries[0] = heap.entries[heap.count - 1],
                                   !.count = heap.count - 1], 0),
          extracted |-> heap.entries[0]]
    ELSE [heap |-> heap, extracted |-> NULL]

\* ------------------------------------------------------------------ traces
\* What a call does besides changing the heap: its slot accesses and the
\* steps of its loops and recursion, in program order.  An event is
\* [k, i, n, d]: kind, index, heap->count at that moment, recursion depth.
Event(k, i, n, d) == [k |-> k, i |-> i, n |-> n, d |-> d]

Read(heap, i) == Event("read", i, heap.count, 0)

Write(heap, i) == Event("write", i, heap.count, 0)

\* heap_compare reads both slots and hands them to the comparator
CompareTrace(heap, a_idx, b_idx) == <<Read(heap, a_idx), Read(heap, b_idx)>>

\* heap_swap: tmp = entries[a]; entries[a] = entries[b]; entries[b] = tmp
SwapTrace(heap, a, b) ==
    <<Read(heap, a), Read(heap, b), Write(heap, a), Write(heap, b)>>

\* the while loop of heap_insert, one "sift" event per test of its condition
RECURSIVE SiftUpTrace(_, _, _)
SiftUpTrace(heap, idx, parent_idx) ==
    <<Event("sift", idx, heap.count, 0)>> \o
    (IF idx # 0
     THEN CompareTrace(heap, parent_idx, idx) \o
          (IF ~heap_property(heap, parent_idx, idx)
           THEN SwapTrace(heap, idx, parent_idx) \o
                SiftUpTrace(heap_swap(heap, idx, parent_idx), parent_idx,
                            HEAP_PARENT(parent_idx))
           ELSE <<>>)
     ELSE <<>>)

InsertTrace(heap, value) ==
    <<Event("heap_insert", 0, heap.count, 0)>> \o
    (IF heap.count = heap.capacity
     THEN <<>>
     ELSE LET idx == heap.count
              stored == [heap EXCEPT !.entries[idx] = value,
                                     !.count = heap.count + 1]
          IN <<Write(heap, idx)>> \o SiftUpTrace(stored, idx, HEAP_PARENT(idx)))

\* heap_heapify called at recursion depth d, one "heapify" event per call
RECURSIVE HeapifyTrace(_, _, _)
HeapifyTrace(heap, idx, d) ==
    LET left_idx == HEAP_LEFT(idx)
        right_idx == HEAP_RIGHT(idx)
        smallest_idx == SmallestIdx(heap, idx)
    IN <<Event("heapify", idx, heap.count, d)>> \o
       (IF right_idx < heap.count
        THEN CompareTrace(heap, left_idx, CBool(right_idx = -1))
        ELSE <<>>) \o
       (IF smallest_idx # idx
        THEN CompareTrace(heap, idx, smallest_idx) \o
             (IF ~heap_property(heap, idx, smallest_idx)
              THEN SwapTrace(heap, idx, smallest_idx) \o
                   HeapifyTrace(heap_swap(heap, idx, smallest_idx),
                                smallest_idx, d + 1)
              ELSE <<>>)
        ELSE <<>>)

RECURSIVE BulkCopyTrace(_, _, _)
BulkCopyTrace(heap, i, limit) ==
    IF i < limit
    THEN <<Write(heap, heap.count)>> \o
         BulkCopyTrace([heap EXCEPT !.count = heap.count + 1], i + 1, limit)
    ELSE <<>>

\* second loop of heap_bulk_insert, one "loop" event per iteration
RECURSIVE BulkHeapifyTrace(_, _)
BulkHeapifyTrace(heap, i) ==
    IF i >= 0
    THEN <<Event("loop", i, heap.count, 0)>> \o HeapifyTrace(heap, i, 0) \o
         BulkHeapifyTrace(heap_heapify(heap, i), i - 1)
    ELSE <<>>

\* mutant: the second loop starts at count / 2
BulkInsertTraceHalf(heap, count, values) ==
    LET available == heap.capacity - heap.count
        limit == IF available > count THEN count ELSE available
        copied == BulkCopy(heap, values, 0, limit)
    IN <<Event("heap_bulk_insert", 0, heap.count, 0)>> \o
       BulkCopyTrace(heap, 0, limit) \o
       BulkHeapifyTrace(copied, CDiv(copied.count, 2))

BulkInsertTrace(heap, count, values) ==
    LET available == heap.capacity - heap.count
        limit == IF available > count THEN count ELSE available
        copied == BulkCopy(heap, values, 0, limit)
    IN <<Event("heap_bulk_insert", 0, heap.count, 0)>> \o
       BulkCopyTrace(heap, 0, limit) \o
       BulkHeapifyTrace(copied, CDiv(copied.count - 1, 2))

\* mutant: the last slot is read at entries[count], not entries[count - 1]
ExtractTraceOffByOne(heap) ==
    <<Event("heap_extract", 0, heap.count, 0)>> \o
    (IF heap.count # 0
     THEN <<Read(heap, 0), Read(heap, heap.count), Write(heap, 0)>> \o
          HeapifyTrace([heap EXCEPT
                           !.entries[0] = heap.entries[heap.count - 1],
                           !.count = heap.count - 1], 0, 0)
     ELSE <<>>)

ExtractTrace(heap) ==
    <<Event("heap_extract", 0, heap.count, 0)>> \o
    (IF heap.count # 0
     THEN <<Read(heap, 0), Read(heap, heap.count - 1), Write(heap, 0)>> \o
          HeapifyTrace([heap EXCEPT
                           !.entries[0] = heap.entries[heap.count - 1],
                           !.count = heap.count - 1], 0, 0)
     ELSE <<>>)

\* ------------------------------------------------------------------- state
VARIABLES
    heap,      \* the heap_t under test
    call,      \* the last call made on heap: name, argument, return value
    offered,   \* counted run: heap_insert calls since creation or the last
               \* removal, counted up to capacity + 1
    script,    \* scripted run: the values to insert
    pc,        \* scripted run: phase and position
    twin,      \* scripted run: second heap, filled by heap_bulk_insert
    outSeq,    \* scripted run: values extracted from heap
    outBulk,   \* scripted run: values extracted from twin
    created,   \* what the last heap_new returned: "heap", "NULL"; "none"
               \* before the first call, "freed" after heap_free
    live,      \* the blocks allocated and not freed
    before,    \* heapify run: the heap before the heap_heapify call
    picked,    \* heapify run: the smallest_idx of the heap_heapify call
    ledger,    \* counted run: per handle, times accepted minus times returned
    trace      \* traced run: the slot accesses and loop steps of the last call

vars == <<heap, call, offered, script, pc, twin, outSeq, outBulk,
          created, live, before, picked, ledger, trace>>

allocVars == <<created, live>>

heapifyVars == <<before, picked>>

scriptVars == <<script, pc, twin, outSeq, outBulk>>

Min(a, b) == IF a < b THEN a ELSE b

SeqsUpTo(S, n) == UNION {[1..k -> S] : k \in 0..n}

NoCall == [name |-> "heap_new", arg |-> <<>>, ret |-> NULL, preCount |-> 0]

EmptyLedger == [h \in Handle |-> 0]

\* the ledger after the values of the sequence s were accepted
RECURSIVE Accept(_, _)
Accept(l, s) ==
    IF s = <<>> THEN l
    ELSE Accept([l EXCEPT ![Head(s)] = l[Head(s)] + 1], Tail(s))

\* ------------------------------------------------ arbitrary call sequences
Init ==
    /\ \E capacity \in 0..MaxCapacity : heap = heap_t(capacity, "ascending")
    /\ call = NoCall
    /\ offered = 0
    /\ script = <<>>
    /\ pc = [phase |-> "api", i |-> 0]
    /\ twin = NoHeap
    /\ outSeq = <<>>
    /\ outBulk = <<>>
    /\ created = "heap"
    /\ live = {"heap_t", "entries"}
    /\ before = NoHeap
    /\ picked = 0
    /\ ledger = EmptyLedger
    /\ trace = <<>>

Insert ==
    \E value \in Handle :
        /\ heap' = heap_insert(heap, value)
        /\ call' = [name |-> "heap_insert", arg |-> <<value>>, ret |-> NULL,
                    preCount |-> heap.count]
        /\ UNCHANGED <<offered, scriptVars, allocVars, heapifyVars, ledger,
                       trace>>

BulkInsert ==
    \E values \in SeqsUpTo(BulkHandle, MaxBulk) :
        /\ heap' = heap_bulk_insert(heap, Len(values), values)
        /\ call' = [name |-> "heap_bulk_insert", arg |-> values, ret |-> NULL,
                    preCount |-> heap.count]
        /\ UNCHANGED <<offered, scriptVars, allocVars, heapifyVars, ledger,
                       trace>>

Extract ==
    LET r == heap_extract(heap)
    IN /\ heap' = r.heap
       /\ call' = [name |-> "heap_extract", arg |-> <<>>, ret |-> r.extracted,
                   preCount |-> heap.count]
       /\ UNCHANGED <<offered, scriptVars, allocVars, heapifyVars, ledger,
                      trace>>

Next == Insert \/ BulkInsert \/ Extract

Spec == Init /\ [][Next]_vars

\* ------------------------------------------------------------- counted run
\* The same calls, counting the values offered to heap_insert instead of
\* recording the last call.
OfferedInsert ==
    \E value \in Handle :
        /\ created = "heap"
        /\ heap' = heap_insert(heap, value)
        /\ offered' = Min(offered + 1, heap.capacity + 1)
        /\ ledger' = IF heap.count # heap.capacity
                     THEN Accept(ledger, <<value>>) ELSE ledger
        /\ UNCHANGED <<call, scriptVars, allocVars, heapifyVars, trace>>

OfferedBulkInsert ==
    \E values \in SeqsUpTo(BulkHandle, MaxBulk) :
        /\ created = "heap"
        /\ heap' = heap_bulk_insert(heap, Len(values), values)
        /\ ledger' = Accept(ledger,
                            SubSeq(values, 1,
                                   Min(Len(values), heap.capacity - heap.count)))
        /\ UNCHANGED <<call, offered, scriptVars, allocVars, heapifyVars,
                       trace>>

OfferedExtract ==
    LET r == heap_extract(heap)
    IN /\ created = "heap"
       /\ heap' = r.heap
       /\ offered' = IF heap.count # 0 THEN 0 ELSE offered
       /\ ledger' = IF r.extracted # NULL
                    THEN [ledger EXCEPT ![r.extracted] = @ - 1] ELSE ledger
       /\ UNCHANGED <<call, scriptVars, allocVars, heapifyVars, trace>>

NextOffered == OfferedInsert \/ OfferedBulkInsert \/ OfferedExtract

SpecOffered == Init /\ [][NextOffered]_vars

\* -------------------------------------------------------------- traced run
\* The same calls, recording the trace of the last call.
TracedInsert ==
    \E value \in Handle :
        /\ heap' = heap_insert(heap, value)
        /\ trace' = InsertTrace(heap, value)
        /\ UNCHANGED <<call, offered, scriptVars, allocVars, heapifyVars,
                       ledger>>

TracedBulkInsert ==
    \E values \in SeqsUpTo(BulkHandle, MaxBulk) :
        /\ heap' = heap_bulk_insert(heap, Len(values), values)
        /\ trace' = BulkInsertTrace(heap, Len(values), values)
        /\ UNCHANGED <<call, offered, scriptVars, allocVars, heapifyVars,
                       ledger>>

TracedExtract ==
    /\ heap' = heap_extract(heap).heap
    /\ trace' = ExtractTrace(heap)
    /\ UNCHANGED <<call, offered, scriptVars, allocVars, heapifyVars, ledger>>

NextTraced == TracedInsert \/ TracedBulkInsert \/ TracedExtract

SpecTraced == Init /\ [][NextTraced]_vars

\* ---------------------------------------------------------- allocation run
\* The heap's life from before heap_new to after heap_free; either malloc of
\* heap_new may fail.
InitAlloc ==
    /\ heap = NoHeap
    /\ call = NoCall
    /\ offered = 0
    /\ script = <<>>
    /\ pc = [phase |-> "api", i |-> 0]
    /\ twin = NoHeap
    /\ outSeq = <<>>
    /\ outBulk = <<>>
    /\ created = "none"
    /\ live = {}
    /\ before = NoHeap
    /\ picked = 0
    /\ ledger = EmptyLedger
    /\ trace = <<>>

New ==
    \E capacity \in 0..MaxCapacity, comparator \in Comparators,
       heap_ok \in BOOLEAN, entries_ok \in BOOLEAN :
        LET r == heap_new(capacity, comparator, heap_ok, entries_ok)
        IN /\ created # "heap"
           /\ heap' = r.heap
           /\ created' = r.ret
           /\ live' = live \cup r.live
           /\ call' = [name |-> "heap_new",
                       arg |-> <<capacity, comparator, heap_ok, entries_ok>>,
                       ret |-> NULL, preCount |-> 0]
           /\ offered' = 0
           /\ ledger' = EmptyLedger
           /\ UNCHANGED <<scriptVars, heapifyVars, trace>>

Free ==
    /\ created = "heap"
    /\ heap' = NoHeap
    /\ created' = "freed"
    /\ live' = heap_free(live)
    /\ UNCHANGED <<call, offered, scriptVars, heapifyVars, ledger, trace>>

NextAlloc ==
    New \/ Free \/ OfferedInsert \/ OfferedBulkInsert \/ OfferedExtract

SpecAlloc == InitAlloc /\ [][NextAlloc]_vars

\* ------------------------------------------------------------- heapify run
\* One call of heap_heapify on an array as the copy loop of heap_bulk_insert
\* can leave it: any handles in entries[0..count).
InitHeapify ==
    /\ \E n \in 0..MaxHeapifyCount :
         \E stored \in [0..(n - 1) -> Handle] :
            heap = [count |-> n, capacity |-> MaxHeapifyCount,
                    comparator |-> "ascending",
                    entries |-> [i \in 0..(MaxHeapifyCount - 1) |->
                                   IF i < n THEN stored[i] ELSE UNINIT]]
    /\ call = NoCall
    /\ offered = 0
    /\ script = <<>>
    /\ pc = [phase |-> "ready", i |-> 0]
    /\ twin = NoHeap
    /\ outSeq = <<>>
    /\ outBulk = <<>>
    /\ created = "heap"
    /\ live = {"heap_t", "entries"}
    /\ before = NoHeap
    /\ picked = 0
    /\ ledger = EmptyLedger
    /\ trace = <<>>

Heapify ==
    \E idx \in 0..(IF heap.count = 0 THEN 0 ELSE heap.count - 1) :
        /\ pc.phase = "ready"
        /\ heap' = heap_heapify(heap, idx)
        /\ before' = heap
        /\ picked' = SmallestIdx(heap, idx)
        /\ call' = [name |-> "heap_heapify", arg |-> <<idx>>, ret |-> NULL,
                    preCount |-> heap.count]
        /\ pc' = [phase |-> "called", i |-> 0]
        /\ UNCHANGED <<offered, script, twin, outSeq, outBulk, allocVars,
                       ledger, trace>>

NextHeapify == Heapify

SpecHeapify == InitHeapify /\ [][NextHeapify]_vars

\* ------------------------------------------------------------ scripted run
\* Insert script one value at a time into heap and drain it, then hand the
\* same values to heap_bulk_insert on twin and drain that.
InitScript ==
    /\ script \in SeqsUpTo(ScriptHandle, MaxLen) \ {<<>>}
    /\ \E capacity \in Len(script)..MaxLen :
           /\ heap = heap_t(capacity, "ascending")
           /\ twin = heap_t(capacity, "ascending")
    /\ call = NoCall
    /\ offered = 0
    /\ pc = [phase |-> "insert", i |-> 0]
    /\ outSeq = <<>>
    /\ outBulk = <<>>
    /\ created = "heap"
    /\ live = {"heap_t", "entries"}
    /\ before = NoHeap
    /\ picked = 0
    /\ ledger = EmptyLedger
    /\ trace = <<>>

Advance(next) ==
    IF pc.i + 1 = Len(script)
    THEN [phase |-> next, i |-> 0]
    ELSE [pc EXCEPT !.i = pc.i + 1]

ScriptInsert ==
    /\ pc.phase = "insert"
    /\ heap' = heap_insert(heap, script[pc.i + 1])
    /\ call' = [name |-> "heap_insert", arg |-> <<script[pc.i + 1]>>,
                ret |-> NULL, preCount |-> heap.count]
    /\ pc' = Advance("extract")
    /\ UNCHANGED <<offered, script, twin, outSeq, outBulk>>
    /\ UNCHANGED <<allocVars, heapifyVars, ledger, trace>>

ScriptExtract ==
    /\ pc.phase = "extract"
    /\ LET r == heap_extract(heap)
       IN /\ heap' = r.heap
          /\ outSeq' = Append(outSeq, r.extracted)
          /\ call' = [name |-> "heap_extract", arg |-> <<>>,
                      ret |-> r.extracted, preCount |-> heap.count]
    /\ pc' = Advance("bulk")
    /\ UNCHANGED <<offered, script, twin, outBulk>>
    /\ UNCHANGED <<allocVars, heapifyVars, ledger, trace>>

ScriptBulk ==
    /\ pc.phase = "bulk"
    /\ twin' = heap_bulk_insert(twin, Len(script), script)
    /\ pc' = [phase |-> "extract_twin", i |-> 0]
    /\ UNCHANGED <<heap, call, offered, script, outSeq, outBulk>>
    /\ UNCHANGED <<allocVars, heapifyVars, ledger, trace>>

ScriptExtractTwin ==
    /\ pc.phase = "extract_twin"
    /\ LET r == heap_extract(twin)
       IN /\ twin' = r.heap
          /\ outBulk' = Append(outBulk, r.extracted)
    /\ pc' = Advance("done")
    /\ UNCHANGED <<heap, call, offered, script, outSeq>>
    /\ UNCHANGED <<allocVars, heapifyVars, ledger, trace>>

NextScript ==
    ScriptInsert \/ ScriptExtract \/ ScriptBulk \/ ScriptExtractTwin

SpecScript == InitScript /\ [][NextScript]_vars

\* ---------------------------------------------------------------- helpers
\* how many of the slots entries[0..count) of h hold x
StoredCount(h, x) == Cardinality({i \in 0..(h.count - 1) : h.entries[i] = x})

RanksOf(s) == [i \in DOMAIN s |-> Rank(s[i])]

\* ----------------------------------------------------------------- claims

\* C1: after any sequence of heap_insert / heap_bulk_insert / heap_extract
\* calls on a heap created empty, no parent ranks greater than its child:
\* comparator(entries[(i-1)/2], entries[i]) # +1 for every 1 <= i < count.
HeapPropertyInvariant ==
    \A i \in 1..(heap.count - 1) :
        Comparator(heap.entries[HEAP_PARENT(i)], heap.entries[i]) # 1

\* C2: whenever count > 0, entries[0] is a minimum of the stored elements.
RootIsMinimum ==
    heap.count > 0 =>
        \A i \in 0..(heap.count - 1) :
            Comparator(heap.entries[0], heap.entries[i]) # 1

\* C3: N values inserted one at a time into an empty heap of capacity >= N
\* and then extracted N times come out in non-decreasing comparator order.
MinExtractionOrder ==
    (pc.phase \in {"bulk", "extract_twin", "done"}) =>
        \A i \in 1..(Len(outSeq) - 1) :
            Comparator(outSeq[i], outSeq[i + 1]) # 1

\* C4: heap_bulk_insert of a list into an empty heap followed by extraction
\* until empty yields the same sequence of ranks as inserting the list one
\* value at a time followed by the same number of extractions.
BulkSequentialEquivalence ==
    pc.phase = "done" => RanksOf(outBulk) = RanksOf(outSeq)

\* C5: 0 <= count <= capacity always; and once more than capacity values
\* have been offered by heap_insert with no removal in between, count equals
\* capacity.
CapacityBound ==
    /\ 0 <= heap.count
    /\ heap.count <= heap.capacity
    /\ offered > heap.capacity => heap.count = heap.capacity

CapacityBoundWitness ==
    /\ heap.capacity = MaxCapacity
    /\ offered > heap.capacity
    /\ heap.count = heap.capacity

\* C6: heap_insert on a full heap changes nothing: count, capacity and
\* every slot of entries stay as they were, the offered value is not stored.
InsertFullNoOp ==
    [][(call'.name = "heap_insert" /\ heap.count = heap.capacity) =>
          /\ heap'.count = heap.count
          /\ heap'.capacity = heap.capacity
          /\ heap'.entries = heap.entries]_vars

InsertFullWitness ==
    /\ call.name = "heap_insert"
    /\ heap.capacity > 1
    /\ call.preCount = heap.capacity
    /\ \A i \in 0..(heap.count - 1) : heap.entries[i] # call.arg[1]

\* C7: heap_bulk_insert on a full heap changes neither count nor the content
\* of any slot entries[0..count), whatever the values list.
BulkInsertFullNoOp ==
    [][(call'.name = "heap_bulk_insert" /\ heap.count = heap.capacity) =>
          /\ heap'.count = heap.count
          /\ heap'.entries = heap.entries]_vars

\* C8: heap_bulk_insert accepts exactly the first
\* min(len(values), capacity - count) values: count grows by that number and
\* the stored multiset becomes the old one plus that prefix of values.
BulkInsertAcceptsPrefix ==
    [][call'.name = "heap_bulk_insert" =>
          LET n == Min(Len(call'.arg), heap.capacity - heap.count)
          IN /\ heap'.count = heap.count + n
             /\ heap'.capacity = heap.capacity
             /\ \A x \in Handle \cup {NULL, UNINIT} :
                    StoredCount(heap', x) =
                        StoredCount(heap, x) +
                        Cardinality({i \in 1..n : call'.arg[i] = x})]_vars

BulkInsertPrefixWitness ==
    /\ call.name = "heap_bulk_insert"
    /\ call.preCount > 0
    /\ heap.capacity - call.preCount > 0
    /\ Len(call.arg) > heap.capacity - call.preCount
    /\ heap.count = heap.capacity

\* C9: heap_extract on a heap with count = 0 returns NULL, leaves count at 0
\* and changes nothing else; a heap_insert made right after it stores its
\* value as on a fresh heap.
EmptyDrain ==
    [][/\ (call'.name = "heap_extract" /\ heap.count = 0) =>
              /\ call'.ret = NULL
              /\ heap'.count = 0
              /\ heap' = heap
       /\ (/\ call.name = "heap_extract"
           /\ call.ret = NULL
           /\ call'.name = "heap_insert"
           /\ heap.capacity > 0) =>
              /\ heap'.count = 1
              /\ heap'.entries[0] = call'.arg[1]]_vars

EmptyDrainWitness ==
    /\ call.name = "heap_extract"
    /\ call.preCount = 0
    /\ call.ret = NULL
    /\ heap.count = 0
    /\ heap.capacity > 0
    /\ heap.entries[0] # UNINIT

\* C10: with capacity 5, inserting 7, 3, 9, 1, 5 one at a time and then
\* extracting five times returns 1, 3, 5, 7, 9 and leaves count = 0.
RoundTripInput == <<<<7, 0>>, <<3, 0>>, <<9, 0>>, <<1, 0>>, <<5, 0>>>>

RoundTripExample ==
    (/\ script = RoundTripInput
     /\ heap.capacity = 5
     /\ pc.phase \in {"bulk", "extract_twin", "done"}) =>
        /\ RanksOf(outSeq) = <<1, 3, 5, 7, 9>>
        /\ heap.count = 0

RoundTripWitness ==
    /\ script = RoundTripInput
    /\ heap.capacity = 5
    /\ pc.phase = "bulk"
    /\ Len(outSeq) = 5
    /\ heap.count = 0

\* C11: heap_new either returns a heap with count 0 and the requested
\* capacity and comparator, or reports failure; it succeeds exactly when
\* both malloc calls succeed, and on either failure no block stays
\* allocated.
CreateOutcome ==
    [][created # "heap" =>
          LET capacity == call'.arg[1]
              comparator == call'.arg[2]
              heap_ok == call'.arg[3]
              entries_ok == call'.arg[4]
          IN IF heap_ok /\ entries_ok
             THEN /\ created' = "heap"
                  /\ heap'.count = 0
                  /\ heap'.capacity = capacity
                  /\ heap'.comparator = comparator
                  /\ live' = {"heap_t", "entries"}
             ELSE /\ created' = "NULL"
                  /\ live' = {}]_vars

CreateFailureWitness ==
    /\ created = "NULL"
    /\ call.arg[3] = TRUE
    /\ call.arg[4] = FALSE
    /\ live = {}

\* i lies in the subtree rooted at root
RECURSIVE InSubtree(_, _)
InSubtree(i, root) ==
    IF i <= root THEN i = root ELSE InSubtree(HEAP_PARENT(i), root)

\* the heap property holds inside the subtree of h rooted at root
SubtreeOK(h, root) ==
    \A i \in 1..(h.count - 1) :
        (i # root /\ InSubtree(i, root)) =>
            Comparator(h.entries[HEAP_PARENT(i)], h.entries[i]) # 1

\* C12: if index < count and the subtrees rooted at the children of index
\* satisfy the heap property, then after heap_heapify(index) the subtree
\* rooted at index satisfies it.
HeapifyPostcondition ==
    (/\ pc.phase = "called"
     /\ call.arg[1] < before.count
     /\ SubtreeOK(before, HEAP_LEFT(call.arg[1]))
     /\ SubtreeOK(before, HEAP_RIGHT(call.arg[1]))) =>
        SubtreeOK(heap, call.arg[1])

\* C13: when both children of index exist, heap_heapify picks the child that
\* compares smaller under comparator(entries[left], entries[right]), and the
\* left child when the two compare equal.
HeapifyPicksSmallerChild ==
    (pc.phase = "called" /\ HEAP_RIGHT(call.arg[1]) < before.count) =>
        LET left_idx == HEAP_LEFT(call.arg[1])
            right_idx == HEAP_RIGHT(call.arg[1])
        IN picked = IF Comparator(before.entries[left_idx],
                                  before.entries[right_idx]) = 1
                    THEN right_idx ELSE left_idx

\* the sift-up of C14: swap with the parent only while
\* comparator(parent, child) = +1
RECURSIVE SiftUpWhileGreater(_, _)
SiftUpWhileGreater(h, idx) ==
    IF idx # 0 /\ heap_compare(h, HEAP_PARENT(idx), idx) = 1
    THEN SiftUpWhileGreater(heap_swap(h, idx, HEAP_PARENT(idx)),
                            HEAP_PARENT(idx))
    ELSE h

\* C14: an accepted heap_insert leaves the new element where swapping it
\* with its parent only while comparator(parent, child) = +1 leaves it; a
\* new element whose parent compares equal stays below that parent.
InsertSwapsOnlyWhileGreater ==
    [][(call'.name = "heap_insert" /\ heap.count # heap.capacity) =>
          heap'.entries =
              SiftUpWhileGreater(
                  [heap EXCEPT !.entries[heap.count] = call'.arg[1],
                               !.count = heap.count + 1],
                  heap.count).entries]_vars

\* C15: heap_heapify(index) changes no slot when index is a leaf or
\* comparator(entries[index], entries[c]) # +1 for each existing child c.
HeapifyNoOpWhenParentSmallest ==
    (/\ pc.phase = "called"
     /\ \A c \in {HEAP_LEFT(call.arg[1]), HEAP_RIGHT(call.arg[1])} :
            c < before.count =>
                Comparator(before.entries[call.arg[1]], before.entries[c]) # 1)
    => heap.entries = before.entries

\* C16: the handles in entries[0..count) are, as a multiset, the handles
\* accepted by heap_insert and heap_bulk_insert minus the handles returned
\* by heap_extract: none is duplicated, lost or invented, and count is the
\* number accepted minus the number returned.
ElementConservation ==
    /\ \A i \in 0..(heap.count - 1) : heap.entries[i] \in Handle
    /\ \A x \in Handle : StoredCount(heap, x) = ledger[x]

ElementConservationWitness ==
    /\ heap.count >= 2
    /\ heap.count < heap.capacity
    /\ heap.entries[heap.count] \in Handle
    /\ \E x \in Handle : ledger[x] >= 2

\* C17: after heap_insert calls only, on a freshly created heap, no parent
\* ranks greater than its child and entries[0] is a minimum of the stored
\* elements, also when values of equal rank were inserted.
InsertOnlyValid ==
    (pc.phase = "insert" \/ (pc.phase = "extract" /\ pc.i = 0)) =>
        /\ \A i \in 1..(heap.count - 1) :
              heap_compare(heap, HEAP_PARENT(i), i) # 1
        /\ \A i \in 1..(heap.count - 1) : heap_compare(heap, 0, i) # 1

InsertOnlyWitness ==
    /\ pc.phase = "extract"
    /\ pc.i = 0
    /\ heap.count = MaxLen
    /\ \E i, j \in 1..Len(script) : i < j /\ Rank(script[i]) = Rank(script[j])
    /\ heap.entries[0] # script[1]
    /\ heap.entries[1] # script[2]

\* the events of the given kind in the trace of the last call, in order
EventsOf(k) == SelectSeq(trace, LAMBDA e : e.k = k)

\* C18: every call ends, and on the way the index tested by the sift-up
\* loop of heap_insert strictly decreases, each recursive heap_heapify call
\* is made from the call one level up on a strictly larger index below
\* count, at a depth d with 2^d <= capacity, and the second loop of
\* heap_bulk_insert calls heap_heapify once per index from (count - 1) / 2
\* down to 0.
OperationsTerminate ==
    LET sifts == EventsOf("sift")
        calls == EventsOf("heapify")
        loops == EventsOf("loop")
        tops == SelectSeq(calls, LAMBDA e : e.d = 0)
    IN /\ \A j \in 1..(Len(sifts) - 1) : sifts[j + 1].i < sifts[j].i
       /\ \A j \in 1..Len(calls) :
             calls[j].d > 0 =>
                 /\ calls[j - 1].d = calls[j].d - 1
                 /\ calls[j].i > calls[j - 1].i
                 /\ calls[j].i < calls[j].n
                 /\ 2 ^ calls[j].d <= heap.capacity
       /\ (trace # <<>> /\ trace[1].k = "heap_bulk_insert") =>
             /\ Len(loops) = CDiv(heap.count - 1, 2) + 1
             /\ Len(tops) = Len(loops)
             /\ \A j \in 1..Len(loops) :
                   /\ loops[j].i = CDiv(heap.count - 1, 2) - (j - 1)
                   /\ tops[j].i = loops[j].i

OperationsTerminateWitness ==
    /\ trace # <<>>
    /\ trace[1].k = "heap_bulk_insert"
    /\ Len(EventsOf("loop")) >= 2
    /\ \E j \in 1..Len(trace) : trace[j].k = "heapify" /\ trace[j].d = 1

\* C19: every slot written lies in [0, capacity) and every slot read or
\* handed to the comparator lies in [0, count) when it is accessed; a
\* heap_heapify call on an empty heap touches no slot.
IndexSafety ==
    \A j \in 1..Len(trace) :
        /\ trace[j].k = "write" =>
              (0 <= trace[j].i /\ trace[j].i < heap.capacity)
        /\ trace[j].k = "read" =>
              (0 <= trace[j].i /\ trace[j].i < trace[j].n)
        /\ (trace[j].k = "heapify" /\ trace[j].n = 0 /\ j < Len(trace)) =>
              trace[j + 1].k \notin {"read", "write"}

IndexSafetyWitness ==
    /\ heap.capacity > 0
    /\ heap.count = 0
    /\ trace = <<Event("heap_bulk_insert", 0, 0, 0), Event("loop", 0, 0, 0),
                 Event("heapify", 0, 0, 0)>>

====
